---- MODULE Spec2Model ----
(***************************************************************************)
(* ESP32 clock with SH1106 OLED: day/night display scheduling and NTP      *)
(* time synchronisation.  The repository holds three builds of the sketch:  *)
(*   "main"      src/src/ESP32-ssh1106.cpp  (sync every hh:30 from 04:30,   *)
(*               display off at night, modem sleep)                         *)
(*   "deepsleep" src/unnamed/part_000       (deep sleep 22:00-06:00)        *)
(*   "dayguard"  src/unnamed/part_001       (sync in hour 5, lastSyncDay)   *)
(* The variable build says which one is flashed; it never changes.          *)
(***************************************************************************)
EXTENDS Integers, FiniteSets, Sequences, TLC

(* ---------------------------- bounds ----------------------------------- *)
\* days in a model year (tm_yday runs 0..YearDays-1 and then wraps); with two
\* days summer time begins in one night and ends in the other, from three days
\* on there are nights without a change
YearDays == 2
\* a clock that has been set reads a year from PlausibleYear up to
\* PlausibleYear+MaxYearsAhead
MaxYearsAhead == 0
\* the ghost attempt counters saturate here
MaxCount == 2
\* the last hour of the morning (of CET standard time) at which the clock is
\* sampled; the hours after it up to FirstEveningHour are stepped over
LastMorningHour == 6

(* ----------------------- program constants ----------------------------- *)
Sync_Stunde == 4
Sync_Min == 30
sleepTime_Start == 22
sleepTime_End == 6
PlausibleYear == 2024
ConnectPollMs == 250
NtpPollsMain == 60
ConnectTimeoutMain == 20000
NtpPollsDeepSleep == 30
ConnectTimeoutDeepSleep == 15000
DayGuardSyncHour == 5
StatusContrast == 64
SecondsPerDay == 24 * 3600
\* the first sampled hour (CET) of the evening: two before the night begins
FirstEveningHour == sleepTime_Start - 2
\* hours (CET) at which the clock is sampled: the night and both its ends as
\* every reading sees them.  Local hour 21, the last of the day, is 20 CET in
\* summer time; local 22 and 23 are 23 and 0 CET while TZ is unset (UTC)
Hours == (0..LastMorningHour) \cup (FirstEveningHour..23)
\* minutes and seconds at which the clock is sampled: the minute Sync_Min and
\* the hour's first and last
Mins == {0, 30, 59}
Secs == {0, 59}

Builds == {"main", "deepsleep", "dayguard"}

VARIABLES
  build,                \* which sketch is flashed
  pc,                   \* "setup" | "connect" | "ntp" | "sync_done" | "loop" | "asleep"
  caller,               \* who called syncTime: "setup" | "loop"
  clock,                \* the system clock time(nullptr), written as CET standard time
  tz,                   \* TZ has been set (configTzTime) since the last reset
  nowLocal,             \* loop(): the snapshot of the current / latest iteration
  lastDisplayedMinute,  \* static int lastDisplayedMinute
  lastSyncDay,          \* static int lastSyncDay
  syncDoneThisMinute,   \* static bool syncDoneThisMinute (main)
  oled,                 \* the display: power save, contrast, what the buffer sent shows
  wifi,                 \* "off" | "connecting" | "connected"
  cpuMhz,               \* setCpuFrequencyMhz; 0 = board default, never set
  wifiPs,               \* esp_wifi_set_ps: "default" | "none" | "min_modem"
  elapsed,              \* syncTime: millis() - t0
  i,                    \* syncTime: poll index of the NTP loop
  ti,                   \* syncTime: struct tm ti, the last polled time (tm_year, tm_yday)
  syncResult,           \* outcome of the latest syncTime: "none" | "running" | "success" | "timeout" | "failure"
  sleepSeconds,         \* sleepUntilSix: the requested sleep duration
  wake,                 \* sleepUntilSix: struct tm wake (tm_mday not normalised)
  redrawn,              \* this iteration's day branch called drawTime
  syncAttempted,        \* this iteration called syncTime
  windowAttempts,       \* loop sync attempts in the current run of iterations at minute Sync_Min
  loopSyncsToday,       \* loop sync attempts on the calendar day of the latest snapshot
  syncedDay             \* tm_yday of the time fetched by the latest successful sync, -1 if none

vars == <<build, pc, caller, clock, tz, nowLocal, lastDisplayedMinute, lastSyncDay,
          syncDoneThisMinute, oled, wifi, cpuMhz, wifiPs, elapsed, i, ti,
          syncResult, sleepSeconds, wake, redrawn, syncAttempted, windowAttempts,
          loopSyncsToday, syncedDay>>

(* ------------------------------ time ----------------------------------- *)
MinOf(S) == CHOOSE x \in S : \A y \in S : x <= y

\* the year of the epoch: a clock that was never set counts from 1 January
\* of it
MinYear == 1970
MaxYear == PlausibleYear + MaxYearsAhead
Years == {MinYear} \cup (PlausibleYear..MaxYear)

\* the year after the last day of year y.  The days of a clock that was never
\* set wrap inside MinYear: it does not reach PlausibleYear by running
NextYear(y) == IF y >= PlausibleYear /\ y < MaxYear THEN y + 1 ELSE y
\* the year before day 0 of year y
PrevYear(y) == IF y > MinYear THEN y - 1 ELSE y

\* the clock of a board powered on without a synchronised time: epoch 0,
\* 00:00:00 UTC, which is 01:00:00 CET
PowerOnClock == [year |-> MinYear, yday |-> 0, hour |-> 1, min |-> 0, sec |-> 0]

\* struct tm ti = {0}: the fields of ti that syncTime reads
ZeroTm == [year |-> 1900, yday |-> 0]
TmOf(t) == [year |-> t.year, yday |-> t.yday]

\* instants an NTP reply can set the clock to: a sampled full minute, or the
\* last sampled second of an hour
NtpClocks ==
  {c \in [year : PlausibleYear..MaxYear, yday : 0..(YearDays - 1),
          hour : Hours, min : Mins, sec : Secs] :
     c.sec # MinOf(Secs) => \A m \in Mins : m <= c.min}

\* TIMEZONE "CET-1CEST,M3.5.0/02,M10.5.0/3" on the model's calendar: summer
\* time begins on day DstBeginDay at 02:00 CET and ends on day DstEndDay at
\* 03:00 CEST, which is 02:00 CET.  A clock that was never set is in the
\* January of MinYear: winter time
DstBeginDay == YearDays \div 2
DstEndDay == 0
DstChangeHour == 2
InDst(c) ==
  /\ c.year >= PlausibleYear
  /\ \/ c.yday > DstBeginDay
     \/ c.yday = DstBeginDay /\ c.hour >= DstChangeHour
     \/ c.yday = DstEndDay /\ c.hour < DstChangeHour

\* a broken-down time k hours away (k in -1..1)
ShiftHours(c, k) ==
  LET h == c.hour + k IN
  IF h < 0
  THEN [c EXCEPT !.hour = h + 24, !.yday = (c.yday + YearDays - 1) % YearDays,
                 !.year = IF c.yday = 0 THEN PrevYear(c.year) ELSE c.year]
  ELSE IF h >= 24
  THEN [c EXCEPT !.hour = h - 24, !.yday = (c.yday + 1) % YearDays,
                 !.year = IF c.yday = YearDays - 1 THEN NextYear(c.year) ELSE c.year]
  ELSE [c EXCEPT !.hour = h]

\* localtime_r of the instant c: UTC while TZ is unset (z false), else Berlin
\* time with tm_isdst
localtime(c, z) ==
  LET d == IF z /\ InDst(c) THEN 1 ELSE 0
      r == IF z THEN ShiftHours(c, d) ELSE ShiftHours(c, -1)
  IN [year |-> r.year, yday |-> r.yday, hour |-> r.hour, min |-> r.min,
      sec |-> r.sec, isdst |-> d]

\* the fields of a broken-down time as seconds since the start of MinYear;
\* the fields need not be normalised
Seconds(t) ==
  (((t.year - MinYear) * YearDays + t.yday) * 24 + t.hour) * 3600 + t.min * 60 + t.sec

\* the instant that lies e seconds after the start of MinYear; the year
\* saturates at MaxYear, and below PlausibleYear it stays MinYear
Civil(e) ==
  LET d == e \div SecondsPerDay
      r == e % SecondsPerDay
      y == MinYear + (d \div YearDays)
  IN [year |-> IF y > MaxYear THEN MaxYear ELSE IF y < PlausibleYear THEN MinYear ELSE y,
      yday |-> d % YearDays,
      hour |-> r \div 3600,
      min  |-> (r % 3600) \div 60,
      sec  |-> r % 60]

\* mktime: the epoch (in seconds of CET standard time since the start of
\* MinYear) of a struct tm, read with the tm_isdst the caller gave it; UTC
\* while TZ is unset
mktime(t, z) ==
  Seconds(t) - t.isdst * 3600 + (IF z THEN 0 ELSE 3600)

\* delay(1000) and the next time(nullptr): the next sampled instant after c
Tick(c) ==
  IF \E s \in Secs : s > c.sec
  THEN [c EXCEPT !.sec = MinOf({s \in Secs : s > c.sec})]
  ELSE IF \E m \in Mins : m > c.min
  THEN [c EXCEPT !.min = MinOf({m \in Mins : m > c.min}), !.sec = MinOf(Secs)]
  ELSE IF \E h \in Hours : h > c.hour
  THEN [c EXCEPT !.hour = MinOf({h \in Hours : h > c.hour}),
                 !.min = MinOf(Mins), !.sec = MinOf(Secs)]
  ELSE IF c.yday < YearDays - 1
  THEN [c EXCEPT !.yday = c.yday + 1, !.hour = MinOf(Hours),
                 !.min = MinOf(Mins), !.sec = MinOf(Secs)]
  ELSE [year |-> NextYear(c.year),
        yday |-> 0, hour |-> MinOf(Hours), min |-> MinOf(Mins), sec |-> MinOf(Secs)]

SameDate(a, b) == a.year = b.year /\ a.yday = b.yday

Bump(n) == IF n < MaxCount THEN n + 1 ELSE n

(* ----------------------------- display --------------------------------- *)
\* the bytes of U+2026 (horizontal ellipsis) as the source files encode it
Ellipsis == <<226, 128, 166>>

\* a status message: its ASCII text and the bytes that follow it
Msg(str) == [text |-> str, tail |-> <<>>]
MsgEllipsis(str) == [text |-> str, tail |-> Ellipsis]

BlankOled == [powerSave |-> 0, contrast |-> 0, kind |-> "blank", text |-> "",
              tail |-> <<>>, hour |-> -1, min |-> -1]

\* oled.begin(): display initialised, cleared and switched on
oledBegin(o) == [BlankOled EXCEPT !.contrast = o.contrast]

showStatus(o, msg) ==
  [powerSave |-> 0, contrast |-> StatusContrast, kind |-> "status",
   text |-> msg.text, tail |-> msg.tail, hour |-> -1, min |-> -1]

TimeContrast == IF build = "main" THEN 30 ELSE 32

drawTime(o, t) ==
  [powerSave |-> IF build = "main" THEN 0 ELSE o.powerSave,
   contrast |-> TimeContrast, kind |-> "time", text |-> "", tail |-> <<>>,
   hour |-> t.hour, min |-> t.min]

\* oled.setPowerSave(1); clearBuffer(); sendBuffer()
blankAndOff(o) == [o EXCEPT !.powerSave = 1, !.kind = "blank", !.text = "",
                            !.tail = <<>>, !.hour = -1, !.min = -1]

setPowerSave(o, v) == [o EXCEPT !.powerSave = v]

(* ------------------------------ WiFi ----------------------------------- *)
\* mutant of disconnectWiFi: the radio is left as it is
disconnectWiFi_skipped == wifi

\* WiFi.disconnect(true, true); WiFi.mode(WIFI_OFF)
disconnectWiFi == "off"

ConnectTimeoutMs == IF build = "deepsleep" THEN ConnectTimeoutDeepSleep ELSE ConnectTimeoutMain
NtpPolls == IF build = "deepsleep" THEN NtpPollsDeepSleep ELSE NtpPollsMain

StartMsg == IF build = "deepsleep" THEN MsgEllipsis("WLAN einschalten")
            ELSE MsgEllipsis("WLAN an")
NtpMsg == IF build = "deepsleep" THEN MsgEllipsis("NTP-Sync") ELSE MsgEllipsis("NTP Sync")
OkMsg == IF build = "deepsleep" THEN Msg("Zeit OK, WLAN aus") ELSE Msg("Zeit OK")

\* what localtime_r reads at power-on
BootTm == localtime(PowerOnClock, FALSE)

Init ==
  /\ build \in Builds
  /\ pc = "setup"
  /\ caller = "setup"
  /\ clock = PowerOnClock
  /\ tz = FALSE
  /\ nowLocal = BootTm
  /\ lastDisplayedMinute = -1
  /\ lastSyncDay = -1
  /\ syncDoneThisMinute = FALSE
  /\ oled = [BlankOled EXCEPT !.powerSave = 1]
  /\ wifi = "off"
  /\ cpuMhz = 0
  /\ wifiPs = "default"
  /\ elapsed = 0
  /\ i = 0
  /\ ti = ZeroTm
  /\ syncResult = "none"
  /\ sleepSeconds = 0
  /\ wake = BootTm
  /\ redrawn = FALSE
  /\ syncAttempted = FALSE
  /\ windowAttempts = 0
  /\ loopSyncsToday = 0
  /\ syncedDay = -1

(* ------------------------------ setup ---------------------------------- *)
\* the part of syncTime up to WiFi.begin(): status shown, radio started
SyncBegin(o, who) ==
  /\ oled' = showStatus(o, StartMsg)
  /\ wifiPs' = IF build = "main" THEN "none" ELSE wifiPs
  /\ cpuMhz' = IF build = "main" THEN 160 ELSE cpuMhz
  /\ wifi' = "connecting"
  /\ elapsed' = 0
  /\ i' = 0
  /\ ti' = ZeroTm
  /\ syncResult' = "running"
  /\ caller' = who
  /\ pc' = "connect"

\* setup() up to and into its call of syncTime()
Setup ==
  /\ pc = "setup"
  /\ SyncBegin(IF build = "main"
               THEN [oledBegin(oled) EXCEPT !.contrast = StatusContrast]
               ELSE oledBegin(oled), "setup")
  /\ UNCHANGED <<build, tz, clock, nowLocal, lastDisplayedMinute, lastSyncDay,
                 syncDoneThisMinute, sleepSeconds, wake, redrawn, syncAttempted,
                 windowAttempts, loopSyncsToday, syncedDay>>

\* setup() after syncTime() returned
SetupResume ==
  /\ pc = "sync_done"
  /\ caller = "setup"
  /\ cpuMhz' = IF build = "main" THEN cpuMhz ELSE 20
  /\ wifiPs' = IF build = "main" THEN wifiPs ELSE "min_modem"
  /\ pc' = "loop"
  /\ UNCHANGED <<build, tz, caller, clock, nowLocal, lastDisplayedMinute, lastSyncDay,
                 syncDoneThisMinute, oled, wifi, elapsed, i, ti, syncResult,
                 sleepSeconds, wake, redrawn, syncAttempted, windowAttempts,
                 loopSyncsToday, syncedDay>>

(* ----------------------------- syncTime -------------------------------- *)
SyncFrame == <<build, tz, caller, nowLocal, syncDoneThisMinute, sleepSeconds, wake,
               redrawn, syncAttempted, windowAttempts, loopSyncsToday>>

\* one pass of the connect wait: not connected, not timed out, delay(250)
ConnectWait ==
  /\ pc = "connect"
  /\ wifi # "connected"
  /\ elapsed < ConnectTimeoutMs
  /\ elapsed' = elapsed + ConnectPollMs
  /\ UNCHANGED <<pc, clock, lastDisplayedMinute, lastSyncDay, oled, wifi, cpuMhz,
                 wifiPs, i, ti, syncResult, syncedDay>>
  /\ UNCHANGED SyncFrame

\* the WiFi.status() read after the wait is connected (the station associated
\* during the wait or just as the time ran out); the NTP status is shown,
\* configTzTime sets TZ and starts SNTP
ConnectSucceeded ==
  /\ pc = "connect"
  /\ wifi' = "connected"
  /\ oled' = showStatus(oled, NtpMsg)
  /\ tz' = TRUE
  /\ elapsed' = 0
  /\ i' = 0
  /\ pc' = "ntp"
  /\ UNCHANGED <<clock, lastDisplayedMinute, lastSyncDay, cpuMhz, wifiPs, ti,
                 syncResult, syncedDay>>
  /\ UNCHANGED <<build, caller, nowLocal, syncDoneThisMinute, sleepSeconds, wake,
                 redrawn, syncAttempted, windowAttempts, loopSyncsToday>>

\* mutant of ConnectTimeout: the connect is started over, again and again
ConnectTimeout_retry ==
  /\ pc = "connect"
  /\ \E first \in BOOLEAN : first \/ elapsed >= ConnectTimeoutMs
  /\ elapsed' = 0
  /\ UNCHANGED <<pc, clock, lastDisplayedMinute, lastSyncDay, oled, wifi, cpuMhz,
                 wifiPs, i, ti, syncResult, syncedDay>>
  /\ UNCHANGED <<build, tz, caller, nowLocal, syncDoneThisMinute, sleepSeconds, wake,
                 redrawn, syncAttempted, windowAttempts, loopSyncsToday>>

\* mutant of ConnectTimeout: after the timeout the time is polled all the same
ConnectTimeout_pollAnyway ==
  /\ pc = "connect"
  /\ \E first \in BOOLEAN : first \/ elapsed >= ConnectTimeoutMs
  /\ oled' = showStatus(oled, Msg("WLAN Timeout"))
  /\ elapsed' = 0
  /\ pc' = "ntp"
  /\ UNCHANGED <<clock, lastDisplayedMinute, lastSyncDay, wifi, cpuMhz, wifiPs, i, ti,
                 syncResult, syncedDay>>
  /\ UNCHANGED <<build, tz, caller, nowLocal, syncDoneThisMinute, sleepSeconds, wake,
                 redrawn, syncAttempted, windowAttempts, loopSyncsToday>>

\* the wait has ended and the WiFi.status() read after it is not connected:
\* the time ran out, or the wait's own read (first) was connected and the link
\* dropped before the second read
ConnectTimeout ==
  /\ pc = "connect"
  /\ \E first \in BOOLEAN : first \/ elapsed >= ConnectTimeoutMs
  /\ oled' = showStatus(oled, Msg("WLAN Timeout"))
  /\ wifi' = disconnectWiFi
  /\ elapsed' = 0
  /\ syncResult' = "timeout"
  /\ pc' = "sync_done"
  /\ UNCHANGED <<clock, lastDisplayedMinute, lastSyncDay, cpuMhz, wifiPs, i, ti,
                 syncedDay>>
  /\ UNCHANGED SyncFrame

\* mutant of Plausible: any year a clock can read counts as set
Plausible_anyYear(t) == t.year > ZeroTm.year

\* ti.tm_year >= (2024 - 1900)
Plausible(t) == t.year >= PlausibleYear

\* the success exit of syncTime, t being the polled time that passed the test
\* and c the clock when the call returns
SyncSuccess(t, c) ==
  /\ clock' = c
  /\ ti' = TmOf(t)
  /\ wifi' = disconnectWiFi
  /\ oled' = IF build = "deepsleep"
             THEN drawTime(showStatus(oled, OkMsg), t)
             ELSE showStatus(oled, OkMsg)
  /\ lastDisplayedMinute' = IF build = "deepsleep" THEN -1 ELSE lastDisplayedMinute
  /\ lastSyncDay' = IF build = "dayguard" THEN t.yday ELSE lastSyncDay
  /\ cpuMhz' = IF build = "main" THEN 40 ELSE cpuMhz
  /\ wifiPs' = IF build = "main" THEN "min_modem" ELSE wifiPs
  /\ syncedDay' = t.yday
  /\ syncResult' = "success"
  /\ i' = 0
  /\ pc' = "sync_done"
  /\ UNCHANGED elapsed

\* one pass of the NTP poll loop whose read is plausible: ok = true, break.
\* The SNTP reply may have set the clock before the read (c0), or set it while
\* the success status is shown (c), or not at all.
NtpPollOk ==
  /\ pc = "ntp"
  /\ i < NtpPolls
  /\ \E c0 \in {clock} \cup NtpClocks :
       /\ Plausible(localtime(c0, tz))
       /\ \E c \in (IF c0 = clock THEN {clock} \cup NtpClocks ELSE {c0}) :
            SyncSuccess(localtime(c0, tz), c)
  /\ UNCHANGED SyncFrame

\* the clock after the delay(500) of poll number n: an SNTP reply may arrive
\* during the delay.  One that arrives before a later poll's read is the
\* reply before the read of NtpPollOk, so only the last delay needs it.
AfterPollDelay(n) == IF n + 1 = NtpPolls THEN {clock} \cup NtpClocks ELSE {clock}

\* mutant of NtpPollWait: the poll index starts over instead of running out
NtpPollWait_wraps ==
  /\ pc = "ntp"
  /\ i < NtpPolls
  /\ ~Plausible(localtime(clock, tz))
  /\ ti' = TmOf(localtime(clock, tz))
  /\ i' = (i + 1) % NtpPolls
  /\ UNCHANGED <<pc, clock, lastDisplayedMinute, lastSyncDay, oled, wifi, cpuMhz,
                 wifiPs, elapsed, syncResult, syncedDay>>
  /\ UNCHANGED <<build, tz, caller, nowLocal, syncDoneThisMinute, sleepSeconds, wake,
                 redrawn, syncAttempted, windowAttempts, loopSyncsToday>>

\* one pass of the NTP poll loop whose read is not plausible: delay(500), ++i
NtpPollWait ==
  /\ pc = "ntp"
  /\ i < NtpPolls
  /\ ~Plausible(localtime(clock, tz))
  /\ ti' = TmOf(localtime(clock, tz))
  /\ i' = i + 1
  /\ clock' \in AfterPollDelay(i)
  /\ UNCHANGED <<pc, lastDisplayedMinute, lastSyncDay, oled, wifi, cpuMhz,
                 wifiPs, elapsed, syncResult, syncedDay>>
  /\ UNCHANGED SyncFrame

\* mutant of NtpExhausted: the failure exit invalidates lastDisplayedMinute
NtpExhausted_clearsMinute ==
  /\ pc = "ntp"
  /\ i >= NtpPolls
  /\ oled' = showStatus(oled, Msg("NTP fehlgeschlagen"))
  /\ wifi' = disconnectWiFi
  /\ syncResult' = "failure"
  /\ i' = 0
  /\ pc' = "sync_done"
  /\ lastDisplayedMinute' = -1
  /\ UNCHANGED <<clock, lastSyncDay, cpuMhz, wifiPs, elapsed, ti, syncedDay>>
  /\ UNCHANGED <<build, tz, caller, nowLocal, syncDoneThisMinute, sleepSeconds, wake,
                 redrawn, syncAttempted, windowAttempts, loopSyncsToday>>

\* the poll loop ran out: !ok
NtpExhausted ==
  /\ pc = "ntp"
  /\ i >= NtpPolls
  /\ oled' = showStatus(oled, Msg("NTP fehlgeschlagen"))
  /\ wifi' = disconnectWiFi
  /\ syncResult' = "failure"
  /\ i' = 0
  /\ pc' = "sync_done"
  /\ UNCHANGED <<clock, lastDisplayedMinute, lastSyncDay, cpuMhz, wifiPs, elapsed,
                 ti, syncedDay>>
  /\ UNCHANGED SyncFrame

(* ------------------------------- loop ---------------------------------- *)
\* nowLocal.tm_hour >= sleepTime_Start || nowLocal.tm_hour < sleepTime_End
IsNight(s) == s.hour >= sleepTime_Start \/ s.hour < sleepTime_End

\* mutant of SyncDue: the main build waits until after hour Sync_Stunde
SyncDue_afterHour(s) ==
  CASE build = "main" ->
         s.hour > Sync_Stunde /\ s.min = Sync_Min /\ ~syncDoneThisMinute
    [] build = "dayguard" ->
         s.hour = DayGuardSyncHour /\ lastSyncDay # s.yday
    [] OTHER -> FALSE

\* the condition under which loop() calls syncTime()
SyncDue(s) ==
  CASE build = "main" ->
         s.hour >= Sync_Stunde /\ s.min = Sync_Min /\ ~syncDoneThisMinute
    [] build = "dayguard" ->
         s.hour = DayGuardSyncHour /\ lastSyncDay # s.yday
    [] OTHER -> FALSE

\* mutant of DayNight: the day branch draws without the minute test
DayNight_alwaysDraw(s, o, ldm) ==
  IF IsNight(s) /\ build # "deepsleep"
  THEN [oled |-> setPowerSave(o, 1), ldm |-> IF build = "main" THEN s.min ELSE -1,
        redrawn |-> FALSE]
  ELSE [oled |-> drawTime(setPowerSave(o, 0), s), ldm |-> s.min, redrawn |-> TRUE]

\* the day/night branch of loop(): the display, lastDisplayedMinute, and
\* whether drawTime was called
DayNight(s, o, ldm) ==
  CASE build = "main" ->
         IF IsNight(s)
         THEN IF s.min # ldm
              THEN [oled |-> blankAndOff(o), ldm |-> s.min, redrawn |-> FALSE]
              ELSE [oled |-> o, ldm |-> ldm, redrawn |-> FALSE]
         ELSE IF s.min # ldm
              THEN [oled |-> drawTime(setPowerSave(o, 0), s), ldm |-> s.min, redrawn |-> TRUE]
              ELSE [oled |-> setPowerSave(o, 0), ldm |-> ldm, redrawn |-> FALSE]
    [] build = "dayguard" ->
         IF ~IsNight(s)
         THEN IF s.min # ldm
              THEN [oled |-> drawTime(setPowerSave(o, 0), s), ldm |-> s.min, redrawn |-> TRUE]
              ELSE [oled |-> setPowerSave(o, 0), ldm |-> ldm, redrawn |-> FALSE]
         ELSE [oled |-> setPowerSave(o, 1), ldm |-> -1, redrawn |-> FALSE]
    [] OTHER ->
         IF s.min # ldm
         THEN [oled |-> drawTime(o, s), ldm |-> s.min, redrawn |-> TRUE]
         ELSE [oled |-> o, ldm |-> ldm, redrawn |-> FALSE]

\* loop() from the debounce reset to the closing delay(1000), on snapshot s;
\* flag is syncDoneThisMinute as the sync block left it
LoopFinish(s, flag) ==
  LET r == DayNight(s, oled, lastDisplayedMinute) IN
  /\ syncDoneThisMinute' = IF build = "main"
                           THEN (IF s.min # Sync_Min THEN FALSE ELSE flag)
                           ELSE syncDoneThisMinute
  /\ oled' = r.oled
  /\ lastDisplayedMinute' = r.ldm
  /\ redrawn' = r.redrawn
  /\ clock' = Tick(clock)
  /\ pc' = "loop"

\* mutant of SyncFlagAfter: the debounce flag is not set after the attempt
SyncFlagAfter_notSet == syncDoneThisMinute

\* syncDoneThisMinute = true, after the call of syncTime() whatever it returned
SyncFlagAfter == TRUE

\* time(nullptr); localtime_r(&now, &nowLocal)
Now == localtime(clock, tz)

\* the attempt counters at the start of an iteration on snapshot s
WindowBase(s) ==
  IF s.min = Sync_Min /\ nowLocal.min = Sync_Min THEN windowAttempts ELSE 0
TodayBase(s) == IF SameDate(s, nowLocal) THEN loopSyncsToday ELSE 0

\* an iteration in which a sync is due: loop() up to and into syncTime()
LoopSync ==
  /\ pc = "loop"
  /\ SyncDue(Now)
  /\ nowLocal' = Now
  /\ SyncBegin(oled, "loop")
  /\ syncAttempted' = TRUE
  /\ redrawn' = FALSE
  /\ windowAttempts' = Bump(WindowBase(Now))
  /\ loopSyncsToday' = Bump(TodayBase(Now))
  /\ UNCHANGED <<build, tz, clock, lastDisplayedMinute, lastSyncDay, syncDoneThisMinute,
                 sleepSeconds, wake, syncedDay>>

\* mutant of LoopResume: the branch is taken on the clock as the sync left it
LoopResume_freshSnapshot ==
  /\ pc = "sync_done"
  /\ caller = "loop"
  /\ nowLocal' = Now
  /\ LoopFinish(Now, SyncFlagAfter)
  /\ UNCHANGED <<build, tz, caller, lastSyncDay, wifi, cpuMhz, wifiPs, elapsed,
                 i, ti, syncResult, sleepSeconds, wake, syncAttempted, windowAttempts,
                 loopSyncsToday, syncedDay>>

\* the rest of that iteration, after syncTime() returned
LoopResume ==
  /\ pc = "sync_done"
  /\ caller = "loop"
  /\ LoopFinish(nowLocal, SyncFlagAfter)
  /\ UNCHANGED <<build, tz, caller, nowLocal, lastSyncDay, wifi, cpuMhz, wifiPs, elapsed,
                 i, ti, syncResult, sleepSeconds, wake, syncAttempted, windowAttempts,
                 loopSyncsToday, syncedDay>>

\* an iteration in which no sync is due (and, in the deep-sleep build, by day)
LoopNoSync ==
  /\ pc = "loop"
  /\ ~SyncDue(Now)
  /\ ~(build = "deepsleep" /\ IsNight(Now))
  /\ nowLocal' = Now
  /\ LoopFinish(Now, syncDoneThisMinute)
  /\ syncAttempted' = FALSE
  /\ windowAttempts' = WindowBase(Now)
  /\ loopSyncsToday' = TodayBase(Now)
  /\ UNCHANGED <<build, tz, caller, lastSyncDay, wifi, cpuMhz, wifiPs, elapsed, i, ti,
                 syncResult, sleepSeconds, wake, syncedDay>>

(* --------------------------- sleepUntilSix ----------------------------- *)
\* mutant of WakeTm: the day is advanced on every call
WakeTm_alwaysTomorrow(t) ==
  [t EXCEPT !.yday = t.yday + 1, !.hour = 6, !.min = 0, !.sec = 0]

\* struct tm wake: tomorrow when it is 22:00 or later, at 06:00:00
WakeTm(t) ==
  [t EXCEPT !.yday = IF t.hour >= 22 THEN t.yday + 1 ELSE t.yday,
            !.hour = 6, !.min = 0, !.sec = 0]

\* (uint64_t)difftime(wakeEpoch, nowEpoch): converting a negative double is
\* undefined; 2^30 stands for the huge values a build can produce
CastU64(d) == IF d >= 0 THEN {d} ELSE {0, 2^30}

\* if (sleepSeconds < 1) sleepSeconds = 1
FloorOne(n) == IF n < 1 THEN 1 ELSE n

\* deep-sleep build, night: loop() calls sleepUntilSix and the chip sleeps
NightSleep ==
  /\ pc = "loop"
  /\ build = "deepsleep"
  /\ IsNight(Now)
  /\ nowLocal' = Now
  /\ oled' = setPowerSave(oled, 1)
  /\ wake' = WakeTm(Now)
  /\ \E n \in CastU64(mktime(WakeTm(Now), tz) - mktime(Now, tz)) :
       sleepSeconds' = FloorOne(n)
  /\ redrawn' = FALSE
  /\ syncAttempted' = FALSE
  /\ windowAttempts' = WindowBase(Now)
  /\ loopSyncsToday' = TodayBase(Now)
  /\ pc' = "asleep"
  /\ UNCHANGED <<build, tz, caller, clock, lastDisplayedMinute, lastSyncDay,
                 syncDoneThisMinute, wifi, cpuMhz, wifiPs, elapsed, i, ti, syncResult,
                 syncedDay>>

\* the wake-up timer fires: the chip resets, the RTC clock has run on, the
\* display controller is still in power save, setup() comes next
WakeUp ==
  /\ pc = "asleep"
  /\ clock' = Civil(Seconds(clock) + sleepSeconds)
  /\ pc' = "setup"
  /\ caller' = "setup"
  /\ nowLocal' = BootTm
  /\ lastDisplayedMinute' = -1
  /\ lastSyncDay' = -1
  /\ syncDoneThisMinute' = FALSE
  /\ cpuMhz' = 0
  /\ wifiPs' = "default"
  /\ ti' = ZeroTm
  /\ syncResult' = "none"
  /\ sleepSeconds' = 0
  /\ wake' = BootTm
  /\ windowAttempts' = 0
  /\ loopSyncsToday' = 0
  /\ syncedDay' = -1
  /\ tz' = FALSE
  /\ UNCHANGED <<build, oled, wifi, elapsed, i, redrawn, syncAttempted>>

(* ------------------------------ system --------------------------------- *)
Next ==
  \/ Setup
  \/ SetupResume
  \/ ConnectWait
  \/ ConnectSucceeded
  \/ ConnectTimeout
  \/ NtpPollOk
  \/ NtpPollWait
  \/ NtpExhausted
  \/ LoopSync
  \/ LoopResume
  \/ LoopNoSync
  \/ NightSleep
  \/ WakeUp

Spec == Init /\ [][Next]_vars

\* the processor keeps running: whatever step is enabled is eventually taken
FairSpec == Spec /\ WF_vars(Next)

TypeOK ==
  /\ build \in Builds
  /\ pc \in {"setup", "connect", "ntp", "sync_done", "loop", "asleep"}
  /\ lastDisplayedMinute \in {-1} \cup Mins
  /\ wifi \in {"off", "connecting", "connected"}
  /\ elapsed \in 0..ConnectTimeoutMs
  /\ i \in 0..NtpPolls
  /\ tz \in BOOLEAN
  /\ pc = "ntp" => tz

(* ============================== claims ================================= *)
\* a step that ends a loop() iteration; its snapshot is nowLocal'
IterationEnds ==
  \/ pc = "loop" /\ pc' \in {"loop", "asleep"}
  \/ pc = "sync_done" /\ caller = "loop" /\ pc' = "loop"

EightHours == 8 * 3600

\* C1 as stated, for the build that has night sleep: every iteration on a
\* night snapshot enters night sleep, and the instant it is to wake at reads
\* 06:00:00 on the clock the snapshot was read from, on the following day for
\* a snapshot from hour 22 on and on the same day before hour 6.
C1_Original ==
  [][(pc = "loop" /\ build = "deepsleep" /\ IsNight(Now)) =>
       /\ pc' = "asleep"
       /\ LET w == localtime(Civil(mktime(wake', tz)), tz) IN
            /\ w.hour = 6 /\ w.min = 0 /\ w.sec = 0
            /\ Now.hour < 6 => w.yday = Now.yday
            /\ Now.hour >= 22 => w.yday = (Now.yday + 1) % YearDays]_vars

\* C2: in day phase an iteration redraws if and only if the snapshot minute
\* differs from lastDisplayedMinute, and records the minute; so of two day
\* iterations in a row the second redraws exactly when the minute changed.
C2_RedrawIffMinuteChanged ==
  [][/\ (IterationEnds /\ ~IsNight(nowLocal')) =>
          /\ redrawn' <=> (nowLocal'.min # lastDisplayedMinute)
          /\ lastDisplayedMinute' = nowLocal'.min
          /\ redrawn' => /\ oled'.kind = "time"
                         /\ oled'.hour = nowLocal'.hour
                         /\ oled'.min = nowLocal'.min
     /\ (pc = "loop" /\ pc' = "loop" /\ ~IsNight(nowLocal) /\ ~IsNight(nowLocal')) =>
          (redrawn' <=> (nowLocal'.min # nowLocal.min))]_vars

\* C2 witness: a second day iteration in the same minute, nothing redrawn,
\* the time of the first one still shown
C2_Witness ==
  /\ pc = "loop" /\ ~IsNight(nowLocal) /\ nowLocal.sec = 59
  /\ ~redrawn /\ lastDisplayedMinute = nowLocal.min
  /\ oled.kind = "time" /\ oled.min = nowLocal.min

\* C3: main build.  The debounce flag is set after a sync attempt whatever its
\* result, it is cleared only by an iteration whose snapshot minute is not
\* Sync_Min, and a run of iterations at minute Sync_Min from hour Sync_Stunde
\* on holds exactly one sync attempt.
C3_OneAttemptPerWindow ==
  [][build = "main" =>
       /\ (pc = "sync_done" /\ caller = "loop" /\ pc' = "loop") => syncDoneThisMinute'
       /\ (syncDoneThisMinute /\ ~syncDoneThisMinute') =>
            (IterationEnds /\ nowLocal'.min # Sync_Min)
       /\ windowAttempts' <= 1
       /\ (IterationEnds /\ nowLocal'.min = Sync_Min /\ nowLocal'.hour >= Sync_Stunde) =>
            (windowAttempts' = 1 /\ syncDoneThisMinute')]_vars

\* C3 witness: 04:30:59, the attempt of this minute timed out, no second one
C3_Witness ==
  /\ build = "main" /\ pc = "loop"
  /\ nowLocal.hour = Sync_Stunde /\ nowLocal.min = Sync_Min /\ nowLocal.sec = 59
  /\ syncResult = "timeout" /\ ~syncAttempted
  /\ windowAttempts = 1 /\ syncDoneThisMinute

\* C4: outside a running sync attempt the radio is off; in particular it is
\* off when syncTime has returned, whatever the outcome.
C4_RadioOffOutsideSync ==
  /\ pc \notin {"connect", "ntp"} => wifi = "off"
  /\ pc = "sync_done" => (syncResult \in {"success", "timeout", "failure"} /\ wifi = "off")

\* C4 witness: syncTime returned failure after a connection had been made
C4_Witness == pc = "sync_done" /\ syncResult = "failure" /\ wifi = "off"

\* C5 as stated: the loop starts a sync attempt only at the scheduled time
\* Sync_Stunde:Sync_Min, and at most one on any calendar day (main build, whose
\* header schedules the sync for 04:30 every day).
C5_Original ==
  build = "main" =>
    /\ (syncAttempted => (nowLocal.hour = Sync_Stunde /\ nowLocal.min = Sync_Min))
    /\ loopSyncsToday <= 1

\* C6 as stated: once a sync has succeeded with a fetched time on day D, the
\* loop starts no sync attempt on a snapshot of day D.
C6_Original ==
  [][(pc = "loop" /\ pc' = "connect") => syncedDay # Now.yday]_vars

\* C7 as stated: at the end of every iteration on a night snapshot the display
\* is in power save.
C7_Original ==
  [][(IterationEnds /\ IsNight(nowLocal')) => oled'.powerSave = 1]_vars

\* C8: syncTime returns success only from a poll, numbered below 60, of a
\* connected session that read a year >= 2024; when the polls of the loop are
\* used up, all having read a year below 2024, it shows the failure status and
\* returns failure; a clock value with a year below 2024 is never reported as
\* synchronised.
C8_SuccessOnlyOnPlausibleYear ==
  [][/\ (pc # "sync_done" /\ pc' = "sync_done" /\ syncResult' = "success") =>
          /\ pc = "ntp" /\ wifi = "connected"
          /\ i < NtpPolls /\ NtpPolls <= 60
          /\ ti'.year >= 2024
     /\ (pc = "ntp" /\ i >= NtpPolls) =>
          /\ i = NtpPolls /\ ti.year < 2024
          /\ syncResult' = "failure" /\ pc' = "sync_done"
          /\ oled'.kind = "status" /\ oled'.text = "NTP fehlgeschlagen"
     /\ (pc = "ntp" /\ ti.year # 1900 /\ pc' = "ntp") => ti.year < 2024
     /\ pc' = "ntp" => i' <= 60]_vars

\* C8 witness: every poll read an implausible year, failure reported
C8_Witness ==
  /\ pc = "sync_done" /\ syncResult = "failure"
  /\ ti.year < PlausibleYear /\ clock.year < PlausibleYear
  /\ oled.text = "NTP fehlgeschlagen"

\* C9: whenever the device is put into night sleep the requested duration is
\* max(1, wakeEpoch - nowEpoch), at least 1 second and at most 8 hours.  It is
\* the time from the snapshot's fields to 06:00:00, of the next day (tm_mday
\* + 1) for a snapshot from hour 22 on and of the same day before hour 6, as
\* the snapshot reads them: with TZ set or unset, in winter and summer time.
C9_SleepDuration ==
  pc = "asleep" =>
    /\ IsNight(nowLocal)
    /\ LET d == mktime(wake, tz) - mktime(nowLocal, tz) IN
         sleepSeconds = IF d > 1 THEN d ELSE 1
    /\ sleepSeconds >= 1
    /\ sleepSeconds <= EightHours
    /\ wake.yday = IF nowLocal.hour >= sleepTime_Start THEN nowLocal.yday + 1
                   ELSE nowLocal.yday
    /\ sleepSeconds =
         ((IF nowLocal.hour >= sleepTime_Start THEN 24 + sleepTime_End ELSE sleepTime_End)
            - nowLocal.hour) * 3600 - nowLocal.min * 60 - nowLocal.sec

\* C9 witness: TZ is unset (no sync since the reset reached configTzTime) and
\* the snapshot reads 22:00:00 UTC: asleep until tomorrow, for the longest
\* duration, eight hours
C9_Witness ==
  /\ pc = "asleep" /\ ~tz
  /\ nowLocal.hour = sleepTime_Start /\ nowLocal.min = 0 /\ nowLocal.sec = 0
  /\ wake.yday = nowLocal.yday + 1
  /\ sleepSeconds = EightHours

\* C10 (as amended): no sync failure stops the device.  A call that ends in
\* connect timeout leaves the clock and the time zone as they were, so the
\* next snapshot continues the old reading; a call that ends in time-fetch
\* failure has set TZ and may leave a clock that an SNTP reply set during the
\* last poll's delay.  In every run loop iterations end again and again, for
\* ever; a day-phase iteration after a failed attempt redraws exactly when the
\* minute changed; and in every run in which, from some point on, no sync
\* attempt succeeds, day-phase redraws happen again and again.
C10_FailureNeverStops ==
  /\ [][/\ (pc # "sync_done" /\ pc' = "sync_done" /\ syncResult' # "success") =>
             (clock' = clock /\ syncResult' \in {"timeout", "failure"})
        /\ (pc # "sync_done" /\ pc' = "sync_done" /\ syncResult' = "timeout") =>
             (tz' = tz /\ (caller = "loop" => localtime(clock', tz') = nowLocal))
        /\ (pc # "sync_done" /\ pc' = "sync_done" /\ syncResult' = "failure") => tz'
        /\ (IterationEnds /\ syncResult' \in {"timeout", "failure"}
              /\ ~IsNight(nowLocal')) =>
             (redrawn' <=> nowLocal'.min # lastDisplayedMinute)]_vars
  /\ []<><<IterationEnds>>_vars
  /\ []<>(syncResult = "success" \/ (pc = "loop" /\ redrawn /\ ~IsNight(nowLocal)))

\* C10 witness: the boot sync timed out and a later day iteration redrew
C10_Witness ==
  /\ pc = "loop" /\ syncResult = "timeout" /\ clock.year < PlausibleYear
  /\ redrawn /\ ~IsNight(nowLocal) /\ nowLocal.hour = 20 /\ nowLocal.min = 0

\* C10 as stated, its part on the clock: when a sync attempt called from
\* loop() has ended in timeout or failure, the clock still reads what the
\* iteration's snapshot read.
C10_Original ==
  (pc = "sync_done" /\ caller = "loop" /\ syncResult \in {"timeout", "failure"}) =>
    localtime(clock, tz) = nowLocal

\* the snapshot s is in the minute Sync_Stunde:Sync_Min (04:30)
AtSyncMinute(s) == s.hour = Sync_Stunde /\ s.min = Sync_Min

\* C11 (as amended): a sync attempt is started by setup() in every build.  In
\* the main build every iteration that reads 04:30 starts a sync attempt,
\* unless the attempt of the current run of iterations at minute 30 has been
\* made already (debounce flag set); an iteration that reaches 04:30 from
\* another minute always starts one, in night phase and whatever the earlier
\* outcomes.  The deep-sleep build never starts a sync from loop() and the
\* day-guard build only in hour 5: neither starts one at 04:30.
C11_SyncAtHalfPastFour ==
  [][/\ (pc = "setup") => (pc' = "connect" /\ caller' = "setup")
     /\ (pc = "loop" /\ build = "main" /\ AtSyncMinute(Now)) =>
          /\ IsNight(Now)
          /\ \/ pc' = "connect" /\ caller' = "loop" /\ nowLocal' = Now
             \/ syncDoneThisMinute /\ windowAttempts = 1 /\ nowLocal.min = Sync_Min
          /\ nowLocal.min # Sync_Min => pc' = "connect"
     /\ (pc = "loop" /\ build # "main" /\ pc' = "connect") =>
          (build = "dayguard" /\ Now.hour = DayGuardSyncHour)]_vars

\* C11 witness: main build, the boot sync did not set the clock, and the
\* iteration that read 04:30:00 has started a sync attempt at night
C11_Witness ==
  /\ build = "main" /\ pc = "connect" /\ caller = "loop"
  /\ AtSyncMinute(nowLocal) /\ nowLocal.sec = 0 /\ IsNight(nowLocal)
  /\ clock.year < PlausibleYear /\ windowAttempts = 1

\* C11 as stated: in every build, an iteration that reads 04:30 has a sync
\* attempt started in that minute, and the device never sleeps across 04:30.
C11_Original ==
  [][/\ (IterationEnds /\ AtSyncMinute(nowLocal')) => windowAttempts' >= 1
     /\ (pc = "asleep" /\ pc' = "setup") =>
          LET a == localtime(clock, TRUE)
              b == localtime(clock', TRUE)
          IN ~(a.hour * 60 + a.min < Sync_Stunde * 60 + Sync_Min
                 /\ b.hour * 60 + b.min > Sync_Stunde * 60 + Sync_Min
                 /\ b.yday = a.yday)]_vars

\* C12 as stated: an iteration on a day snapshot that follows a night-phase
\* iteration, or a wake from night sleep, always redraws the time, also when
\* the two snapshots have the same minute.
C12_Original ==
  [][(pc = "loop" /\ pc' = "loop" /\ IsNight(nowLocal) /\ ~IsNight(nowLocal')) =>
       (redrawn' /\ oled'.kind = "time" /\ oled'.hour = nowLocal'.hour
                 /\ oled'.min = nowLocal'.min)]_vars

\* C13: within one call of syncTime the connect is started once, at the entry
\* of the call, and never started over: the wait only counts up to the
\* timeout.  A call that leaves the wait unconnected shows "WLAN Timeout",
\* switches the radio off and returns timeout at once; it never reaches the
\* NTP request or a poll (ti is still {0}, the clock is untouched).
C13_NoRetryOnTimeout ==
  [][/\ (pc # "connect" /\ pc' = "connect") =>
          (pc \in {"setup", "loop"} /\ wifi = "off" /\ wifi' = "connecting"
             /\ elapsed' = 0)
     /\ (pc = "connect" /\ pc' = "connect") =>
          (wifi' = wifi /\ elapsed' = elapsed + ConnectPollMs
             /\ elapsed' <= ConnectTimeoutMs)
     /\ pc = "ntp" => pc' \in {"ntp", "sync_done"}
     /\ (pc = "connect" /\ elapsed >= ConnectTimeoutMs) => pc' # "connect"
     /\ (pc = "connect" /\ pc' # "connect" /\ wifi' # "connected") =>
          /\ pc' = "sync_done" /\ syncResult' = "timeout"
          /\ oled'.kind = "status" /\ oled'.text = "WLAN Timeout"
          /\ wifi' = "off"
          /\ ti' = ZeroTm /\ clock' = clock
     /\ syncResult' = "timeout" => ti' = ZeroTm]_vars

\* C13 witness: a sync called from loop() came back with a connect timeout
C13_Witness ==
  /\ pc = "sync_done" /\ caller = "loop" /\ syncResult = "timeout"
  /\ oled.text = "WLAN Timeout" /\ wifi = "off" /\ ti = ZeroTm

\* C14: when syncTime() called from loop() has returned, the same iteration
\* goes on to the day/night branch and ends; the branch is chosen by the
\* snapshot read at the start of the iteration, not by the clock as the sync
\* left it, and in the same way for success, timeout and failure.  A night
\* snapshot (such as 04:30) gets the night handling: nothing is drawn.  A day
\* snapshot gets the day handling: display on, the snapshot's time drawn if
\* its minute differs from lastDisplayedMinute.
C14_BranchAfterSync ==
  [][(pc = "sync_done" /\ caller = "loop") =>
       /\ pc' = "loop" /\ nowLocal' = nowLocal
       /\ syncResult' = syncResult
       /\ syncResult \in {"success", "timeout", "failure"}
       /\ IsNight(nowLocal) =>
            /\ ~redrawn' /\ oled'.kind # "time"
            /\ build = "dayguard" => (oled'.powerSave = 1 /\ lastDisplayedMinute' = -1)
            /\ build = "main" =>
                 /\ lastDisplayedMinute' = nowLocal.min
                 /\ nowLocal.min # lastDisplayedMinute =>
                      (oled'.powerSave = 1 /\ oled'.kind = "blank")
       /\ ~IsNight(nowLocal) =>
            /\ oled'.powerSave = 0
            /\ lastDisplayedMinute' = nowLocal.min
            /\ redrawn' <=> (nowLocal.min # lastDisplayedMinute)
            /\ redrawn' => (oled'.kind = "time" /\ oled'.hour = nowLocal.hour
                                                /\ oled'.min = nowLocal.min)]_vars

\* C14 witness: main build, the 04:30 sync succeeded and left the clock in day
\* phase; the iteration ended with the night handling of its 04:30 snapshot
C14_Witness ==
  /\ build = "main" /\ pc = "loop" /\ syncAttempted
  /\ AtSyncMinute(nowLocal) /\ syncResult = "success"
  /\ ~IsNight(Now)
  /\ oled.powerSave = 1 /\ oled.kind = "blank" /\ ~redrawn

\* C15 as stated: in a build that has lastSyncDay, it holds the day-of-year of
\* the time fetched by the latest successful sync, and -1 if none succeeded.
C15_Original ==
  build # "deepsleep" => lastSyncDay = syncedDay

\* a step taken inside syncTime, from its entry to its return
InSyncTime == pc \in {"connect", "ntp"} \/ (pc \in {"setup", "loop"} /\ pc' = "connect")

\* C16 (as amended): no step of syncTime writes syncDoneThisMinute; a call
\* that ends in timeout or failure leaves lastDisplayedMinute and lastSyncDay
\* as they were; the success exit of the deep-sleep build assigns -1 to
\* lastDisplayedMinute (and draws the fetched time), the success exit of the
\* day-guard build assigns the fetched time's day-of-year to lastSyncDay, and
\* the main and day-guard builds never write lastDisplayedMinute in syncTime.
C16_SyncTimeFrame ==
  [][InSyncTime =>
       /\ syncDoneThisMinute' = syncDoneThisMinute
       /\ syncResult' # "success" =>
            (lastDisplayedMinute' = lastDisplayedMinute /\ lastSyncDay' = lastSyncDay)
       /\ build # "deepsleep" => lastDisplayedMinute' = lastDisplayedMinute
       /\ (syncResult' = "success" /\ build = "deepsleep") =>
            (lastDisplayedMinute' = -1 /\ oled'.kind = "time")
       /\ (syncResult' = "success" /\ build = "dayguard") =>
            lastSyncDay' = ti'.yday]_vars

\* C16 witness: day-guard build, a sync called from loop() succeeded and
\* changed lastSyncDay, with lastDisplayedMinute left invalid by the night
C16_Witness ==
  /\ build = "dayguard" /\ pc = "sync_done" /\ caller = "loop"
  /\ syncResult = "success" /\ lastSyncDay = ti.yday /\ lastSyncDay = 1
  /\ lastDisplayedMinute = -1

\* C16 as stated: no step of syncTime changes lastDisplayedMinute, lastSyncDay
\* or syncDoneThisMinute.
C16_Original ==
  [][InSyncTime =>
       UNCHANGED <<lastDisplayedMinute, lastSyncDay, syncDoneThisMinute>>]_vars

\* C17: every call of syncTime terminates.  The connect wait makes at most
\* 20000 / 250 polls and the time-fetch loop at most 60; a call that has been
\* entered returns (success, timeout or failure), and the setup() or loop()
\* iteration that made the call then completes.
C17_SyncTimeTerminates ==
  /\ [](/\ elapsed <= ConnectTimeoutMs /\ ConnectTimeoutMs <= 20000
        /\ elapsed % ConnectPollMs = 0
        /\ i <= NtpPolls /\ NtpPolls <= 60)
  /\ (pc \in {"connect", "ntp"}) ~>
       (pc = "sync_done" /\ syncResult \in {"success", "timeout", "failure"})
  /\ (pc = "sync_done") ~> (pc = "loop")

\* C17 witness: the last poll of the time-fetch loop has been made, after a
\* connect wait; the call is about to return failure to loop()
C17_Witness ==
  /\ pc = "ntp" /\ i = NtpPolls /\ caller = "loop" /\ syncResult = "running"

\* C18 as stated: main build; whenever a sync attempt has returned and none is
\* executing, the CPU runs at 40 MHz and the radio is in modem sleep.
C18_Original ==
  (build = "main" /\ pc \in {"sync_done", "loop"}) =>
    (cpuMhz = 40 /\ wifiPs = "min_modem")

\* C19 as stated: at the end of every iteration on a day snapshot the display
\* is on and shows that snapshot's hour and minute.
C19_Original ==
  [][(IterationEnds /\ ~IsNight(nowLocal')) =>
       /\ oled'.powerSave = 0
       /\ oled'.kind = "time"
       /\ oled'.hour = nowLocal'.hour /\ oled'.min = nowLocal'.min]_vars
====
